---- MODULE Spec2Model ----
(***************************************************************************)
(* Model of heyen_v2_airtable_replace.py: one run() of the scraper is a    *)
(* sequence of steps (cache load, link discovery, one step per detail      *)
(* page, CSV export, plan computation, one step per Airtable batch).       *)
(*                                                                         *)
(* Strings are sequences of one-character strings, so that strip(),        *)
(* rstrip("/"), split("/") and len() are computed on characters.  A field  *)
(* value is a record [t, s, n, f]: t = "s" for a string s, t = "n" for the *)
(* float n.f (n the integer part, f the fraction digits without trailing   *)
(* zeros) and t = "none" for Python's None.  A dict of fields is a         *)
(* function from field names to values; a dict whose insertion order the   *)
(* code relies on (existing, desired) is a sequence of entries.            *)
(*                                                                         *)
(* The Airtable table is modelled as a store that keeps what was written:  *)
(* a create appends rows with fresh ids, a PATCH merges the sent fields    *)
(* into the row with that id, a delete removes the rows, a failing request *)
(* changes nothing, and a listing returns the rows in table order.         *)
(***************************************************************************)
EXTENDS Integers, Sequences, FiniteSets, TLC

(***************************************************************************)
(* Bounds of the model and program constants.                              *)
(***************************************************************************)
MaxRuns == 2
MaxLinks == 2
MaxRemote == 2

\* longest operation list of the runs that exercise the batch loops
MaxItems == 21
BatchSize == 10

(***************************************************************************)
(* Strings.                                                                *)
(***************************************************************************)
Whitespace == {" "}

Digits == {"0", "1", "2", "3", "4", "5", "6", "7", "8", "9"}

DigitVal(c) ==
  CASE c = "0" -> 0 [] c = "1" -> 1 [] c = "2" -> 2 [] c = "3" -> 3
    [] c = "4" -> 4 [] c = "5" -> 5 [] c = "6" -> 6 [] c = "7" -> 7
    [] c = "8" -> 8 [] c = "9" -> 9

RECURSIVE lstrip(_, _)
lstrip(s, cs) ==
  IF s # <<>> /\ Head(s) \in cs THEN lstrip(Tail(s), cs) ELSE s

RECURSIVE rstrip(_, _)
rstrip(s, cs) ==
  IF s # <<>> /\ s[Len(s)] \in cs
    THEN rstrip(SubSeq(s, 1, Len(s) - 1), cs)
    ELSE s

strip(s) == lstrip(rstrip(s, Whitespace), Whitespace)

RECURSIVE replace(_, _, _)
replace(s, c, by) ==
  IF s = <<>> THEN <<>>
  ELSE (IF Head(s) = c THEN by ELSE <<Head(s)>>) \o replace(Tail(s), c, by)

\* s.split(c)[-1]: what follows the last occurrence of c, all of s without c
LastIndexOf(s, c) ==
  IF \E i \in 1..Len(s) : s[i] = c
    THEN CHOOSE i \in 1..Len(s) : s[i] = c /\ \A j \in (i+1)..Len(s) : s[j] # c
    ELSE 0

split_last(s, c) == SubSeq(s, LastIndexOf(s, c) + 1, Len(s))

RECURSIVE DecVal(_)
DecVal(ds) ==
  IF ds = <<>> THEN 0
  ELSE 10 * DecVal(SubSeq(ds, 1, Len(ds) - 1)) + DigitVal(ds[Len(ds)])

Rep(c, n) == [i \in 1..n |-> c]

(***************************************************************************)
(* Field values and dicts of fields.                                       *)
(***************************************************************************)
NoneV == [t |-> "none", s |-> <<>>, n |-> 0, f |-> <<>>]

StrV(s) == [t |-> "s", s |-> s, n |-> 0, f |-> <<>>]

NumV(n, f) == [t |-> "n", s |-> <<>>, n |-> n, f |-> f]

EmptyDict == [k \in {} |-> NoneV]

\* dict.get(k): None when the key is absent
Get(fields, k) == IF k \in DOMAIN fields THEN fields[k] ELSE NoneV

Put(fields, k, v) ==
  [x \in (DOMAIN fields) \cup {k} |-> IF x = k THEN v ELSE fields[x]]

\* d1 | d2 of a PATCH: the sent fields replace or extend the row's fields
Merge(old, new) ==
  [x \in (DOMAIN old) \cup (DOMAIN new) |->
     IF x \in DOMAIN new THEN new[x] ELSE old[x]]

Restrict(fields, ks) == [x \in (DOMAIN fields) \cap ks |-> fields[x]]

\* (fields.get(k) or ""): text columns hold strings; None and "" give ""
TextOrEmpty(fields, k) ==
  IF Get(fields, k).t = "s" THEN Get(fields, k).s ELSE <<>>

(***************************************************************************)
(* float(clean) of parse_price_to_number over the characters of the model: *)
(* digits with at most one decimal point, surrounding whitespace ignored.  *)
(***************************************************************************)
ParseFloat(str) ==
  LET s == strip(str)
      dot == LastIndexOf(s, ".")
      ip == IF dot = 0 THEN s ELSE SubSeq(s, 1, dot - 1)
      fp == IF dot = 0 THEN <<>> ELSE SubSeq(s, dot + 1, Len(s))
      ok == /\ \A i \in 1..Len(ip) : ip[i] \in Digits
            /\ \A i \in 1..Len(fp) : fp[i] \in Digits
            /\ Len(ip) + Len(fp) > 0
  IN IF ok THEN NumV(DecVal(ip), rstrip(fp, {"0"})) ELSE NoneV

parse_price_to_number(preis_str) ==
  IF preis_str = <<>> THEN NoneV
  ELSE LET clean1 == strip(replace(preis_str, "€", <<>>))
           clean2 == replace(replace(clean1, ".", <<>>), ",", <<".">>)
       IN ParseFloat(clean2)

\* mutant: the trailing slash is not removed before the split
extract_objektnummer_last_part(url) == split_last(url, "/")

extract_objektnummer(url) == split_last(rstrip(url, {"/"}), "/")

(***************************************************************************)
(* The Kurzbeschreibung cache and the enrichment step.                     *)
(***************************************************************************)
\* KURZBESCHREIBUNG_CACHE.get(objektnummer, "")
get_cached_kurzbeschreibung(c, objektnummer) ==
  IF objektnummer \in DOMAIN c THEN c[objektnummer] ELSE <<>>

\* the loop of load_kurzbeschreibung_cache over the first n listed rows
RECURSIVE CacheFrom(_, _)
CacheFrom(rows, n) ==
  IF n = 0 THEN EmptyDict
  ELSE LET c == CacheFrom(rows, n - 1)
           obj_nr == strip(TextOrEmpty(rows[n].fields, "Objektnummer"))
           kurzbeschreibung == strip(TextOrEmpty(rows[n].fields, "Kurzbeschreibung"))
       IN IF obj_nr # <<>> /\ kurzbeschreibung # <<>>
            THEN Put(c, obj_nr, kurzbeschreibung)
            ELSE c

\* gen is the text the generation (GPT or the fallback from the scraped
\* data) yields for the page; it is used only on a cache miss
generate_kurzbeschreibung(c, objektnummer, gen) ==
  LET cached == get_cached_kurzbeschreibung(c, objektnummer)
  IN IF objektnummer # <<>> /\ cached # <<>> THEN cached ELSE gen

(***************************************************************************)
(* Extraction of one detail page and the Airtable record made of it.       *)
(* page holds what the extraction heuristics find on the fetched page.     *)
(***************************************************************************)
parse_detail(detail_url, page, c) ==
  LET objektnummer == extract_objektnummer(detail_url)
  IN [Titel |-> page.Titel,
      URL |-> detail_url,
      Beschreibung |-> page.Beschreibung,
      Kurzbeschreibung |-> generate_kurzbeschreibung(c, objektnummer, page.gen),
      Objektnummer |-> objektnummer,
      Kategorie |-> page.Kategorie,
      Objekttyp |-> page.Objekttyp,
      Preis |-> page.Preis,
      Ort |-> page.Ort,
      Bild_URL |-> page.Bild_URL]

make_record(row) ==
  LET preis_value == parse_price_to_number(row.Preis)
      record == [Titel |-> StrV(row.Titel),
                 Kategorie |-> StrV(row.Kategorie),
                 Webseite |-> StrV(row.URL),
                 Objektnummer |-> StrV(row.Objektnummer),
                 Beschreibung |-> StrV(row.Beschreibung),
                 Bild |-> StrV(row.Bild_URL),
                 Standort |-> StrV(row.Ort)]
      withKurz == IF row.Kurzbeschreibung # <<>>
                    THEN Put(record, "Kurzbeschreibung", StrV(row.Kurzbeschreibung))
                    ELSE record
  IN IF preis_value # NoneV THEN Put(withKurz, "Preis", preis_value) ELSE withKurz

(***************************************************************************)
(* Identity key.  "obj:" + s, "url:" + s and "hash:" + h are told apart by *)
(* their prefix, so a key is the prefix tag with the rest; the hash of the *)
(* sort_keys serialization stands for the dict it serializes (hash values  *)
(* are compared only within one process, collisions are left out).         *)
(***************************************************************************)
Key(tag, str, rec) == [tag |-> tag, str |-> str, rec |-> rec]

\* mutant: the URL is tried before the object number
unique_key_url_first(fields) ==
  LET obj == strip(TextOrEmpty(fields, "Objektnummer"))
      url == strip(TextOrEmpty(fields, "Webseite"))
  IN IF url # <<>> THEN Key("url", url, EmptyDict)
     ELSE IF obj # <<>> THEN Key("obj", obj, EmptyDict)
     ELSE Key("hash", <<>>, fields)

unique_key(fields) ==
  LET obj == strip(TextOrEmpty(fields, "Objektnummer"))
      url == strip(TextOrEmpty(fields, "Webseite"))
  IN IF obj # <<>> THEN Key("obj", obj, EmptyDict)
     ELSE IF url # <<>> THEN Key("url", url, EmptyDict)
     ELSE Key("hash", <<>>, fields)

(***************************************************************************)
(* Whitelist.                                                              *)
(***************************************************************************)
ALWAYS_ALLOWED == {"Kurzbeschreibung"}

\* mutant: the whitelist is not applied
sanitize_unfiltered(record, allowed_fields) == record

sanitize_record_for_airtable(record, allowed_fields) ==
  IF allowed_fields = {} THEN record
  ELSE Restrict(record, allowed_fields \cup ALWAYS_ALLOWED)

\* mutant: the field names of all listed rows are collected
airtable_existing_fields_all_rows(rows) ==
  UNION {DOMAIN rows[j].fields : j \in 1..Len(rows)}

\* keys of the first listed row, the empty set for an empty table
airtable_existing_fields(rows) ==
  IF rows = <<>> THEN {} ELSE DOMAIN rows[1].fields

(***************************************************************************)
(* Python dicts whose order matters: sequences of entries [k, v]; a key    *)
(* that is assigned again keeps its position.                              *)
(***************************************************************************)
DictHas(d, k) == \E j \in 1..Len(d) : d[j].k = k

DictGet(d, k) == d[CHOOSE j \in 1..Len(d) : d[j].k = k].v

DictSet(d, k, v) ==
  IF DictHas(d, k)
    THEN [j \in 1..Len(d) |-> IF d[j].k = k THEN [k |-> k, v |-> v] ELSE d[j]]
    ELSE Append(d, [k |-> k, v |-> v])

DictKeys(d) == {d[j].k : j \in 1..Len(d)}

(***************************************************************************)
(* The plan of run(): existing, desired, to_create, to_update, keep and    *)
(* to_delete_ids, each loop over the first n items of its input.           *)
(***************************************************************************)
RECURSIVE BuildExisting(_, _)
BuildExisting(rows, n) ==
  IF n = 0 THEN <<>>
  ELSE DictSet(BuildExisting(rows, n - 1), unique_key(rows[n].fields),
               [id |-> rows[n].id, fields |-> rows[n].fields])

RECURSIVE BuildDesired(_, _, _)
BuildDesired(rows, allowed_fields, n) ==
  IF n = 0 THEN <<>>
  ELSE LET d == BuildDesired(rows, allowed_fields, n - 1)
           r == rows[n]
           k == unique_key(r)
       IN IF DictHas(d, k)
            THEN IF Len(TextOrEmpty(r, "Beschreibung"))
                      > Len(TextOrEmpty(DictGet(d, k), "Beschreibung"))
                   THEN DictSet(d, k, sanitize_record_for_airtable(r, allowed_fields))
                   ELSE d
            ELSE DictSet(d, k, sanitize_record_for_airtable(r, allowed_fields))

\* mutant: the whole desired record is sent
Diff_full(fields, old) == fields

\* mutant: a field the row holds and the record lacks is sent as empty
Diff_blanking(fields, old) ==
  [fld \in {x \in DOMAIN fields : Get(old, x) # fields[x]}
            \cup ((DOMAIN old) \ (DOMAIN fields)) |->
     IF fld \in DOMAIN fields THEN fields[fld] ELSE StrV(<<>>)]

\* {fld: val for fld, val in fields.items() if old.get(fld) != val}
Diff(fields, old) ==
  Restrict(fields, {fld \in DOMAIN fields : Get(old, fld) # fields[fld]})

RECURSIVE PlanCreate(_, _, _)
PlanCreate(des, ex, n) ==
  IF n = 0 THEN <<>>
  ELSE IF DictHas(ex, des[n].k)
         THEN PlanCreate(des, ex, n - 1)
         ELSE Append(PlanCreate(des, ex, n - 1), des[n].v)

RECURSIVE PlanUpdate(_, _, _)
PlanUpdate(des, ex, n) ==
  IF n = 0 THEN <<>>
  ELSE IF DictHas(ex, des[n].k)
            /\ DOMAIN Diff(des[n].v, DictGet(ex, des[n].k).fields) # {}
         THEN Append(PlanUpdate(des, ex, n - 1),
                     [id |-> DictGet(ex, des[n].k).id,
                      fields |-> Diff(des[n].v, DictGet(ex, des[n].k).fields)])
         ELSE PlanUpdate(des, ex, n - 1)

PlanKeep(des, ex) == {k \in DictKeys(des) : DictHas(ex, k)}

\* mutant: keep is not consulted
RECURSIVE PlanDelete_all(_, _, _)
PlanDelete_all(ex, kept, n) ==
  IF n = 0 THEN <<>>
  ELSE Append(PlanDelete_all(ex, kept, n - 1), ex[n].v.id)

RECURSIVE PlanDelete(_, _, _)
PlanDelete(ex, kept, n) ==
  IF n = 0 THEN <<>>
  ELSE IF ex[n].k \in kept
         THEN PlanDelete(ex, kept, n - 1)
         ELSE Append(PlanDelete(ex, kept, n - 1), ex[n].v.id)

(***************************************************************************)
(* The remote table.                                                       *)
(***************************************************************************)
StoreCreate(tbl, firstId, batch) ==
  tbl \o [j \in 1..Len(batch) |-> [id |-> firstId + j - 1, fields |-> batch[j]]]

StoreUpdate(tbl, batch) ==
  [j \in 1..Len(tbl) |->
     IF \E b \in 1..Len(batch) : batch[b].id = tbl[j].id
       THEN [id |-> tbl[j].id,
             fields |-> Merge(tbl[j].fields,
                              batch[CHOOSE b \in 1..Len(batch) :
                                      batch[b].id = tbl[j].id].fields)]
       ELSE tbl[j]]

StoreDelete(tbl, ids) ==
  LET Stays(r) == \A b \in 1..Len(ids) : ids[b] # r.id
  IN SelectSeq(tbl, Stays)

\* mutant: the slice takes its end index too, records[i:i+11]
Batch_inclusive(items, i) ==
  SubSeq(items, i + 1,
         IF i + BatchSize + 1 < Len(items) THEN i + BatchSize + 1 ELSE Len(items))

\* records[i:i+10] for the offset i of a batch loop
Batch(items, i) ==
  SubSeq(items, i + 1, IF i + BatchSize < Len(items) THEN i + BatchSize ELSE Len(items))

(***************************************************************************)
(* Inputs: the website (one entry per discovered link: its URL, whether    *)
(* fetching or parsing it raises, and what extraction finds on it) and the *)
(* initial contents of the Airtable table.                                 *)
(***************************************************************************)
BASE ==
  <<"h", "t", "t", "p", "s", ":", "/", "/", "w", "w", "w", ".", "h", "e", "y", "e", "n", "-", "i", "m", "m", "o", "b", "i", "l", "i", "e", "n", ".", "d", "e">>

KAUF == <<"/", "k", "a", "u", "f", "a", "n", "g", "e", "b", "o", "t", "e", "/">>

MIET == <<"/", "m", "i", "e", "t", "a", "n", "g", "e", "b", "o", "t", "e", "/">>

\* the links of collect_detail_links, in the order the list pages give them
Urls == <<BASE \o KAUF \o <<"a", "/">>,
          BASE \o MIET \o <<"a">>,
          BASE \o KAUF \o <<"b", "/">>>>

Page1 ==
  [ok |-> TRUE, Titel |-> <<"T", "1">>, Beschreibung |-> <<"d">>,
   Kategorie |-> <<"K">>, Objekttyp |-> <<"H">>,
   Preis |-> <<"€", "1", ".", "2", "0", "0">>, Ort |-> <<"V">>,
   Bild_URL |-> <<"i">>, gen |-> <<"g", "1">>]

Page2 ==
  [ok |-> TRUE, Titel |-> <<"T", "2">>, Beschreibung |-> <<"d", "d">>,
   Kategorie |-> <<"K">>, Objekttyp |-> <<"H">>,
   Preis |-> <<>>, Ort |-> <<"V">>,
   Bild_URL |-> <<>>, gen |-> <<"g", "2">>]

\* a detail page whose fetch or extraction raises
FailPage ==
  [ok |-> FALSE, Titel |-> <<>>, Beschreibung |-> <<>>,
   Kategorie |-> <<>>, Objekttyp |-> <<>>,
   Preis |-> <<>>, Ort |-> <<>>,
   Bild_URL |-> <<>>, gen |-> <<>>]

Pages == {Page1, Page2, FailPage}

\* increasing index sequences of length n into Urls
RECURSIVE Picks(_)
Picks(n) ==
  IF n = 0 THEN {<<>>}
  ELSE {Append(p, j) : p \in Picks(n - 1), j \in 1..Len(Urls)}

Increasing(p) == \A j \in 1..(Len(p) - 1) : p[j] < p[j + 1]

SitesOfLen(n) ==
  {[j \in 1..n |-> [url |-> Urls[p[j]], page |-> pg[j]]] :
     p \in {q \in Picks(n) : Increasing(q)}, pg \in [1..n -> Pages]}

BigSite ==
  [j \in 1..(BatchSize + 1) |->
     [url |-> BASE \o KAUF \o Rep("c", j) \o <<"/">>, page |-> Page1]]

Sites == UNION {SitesOfLen(n) : n \in 0..MaxLinks} \cup {BigSite}

\* rows a table can hold: the row of an earlier run for listing a, a row of
\* listing a edited by hand (padded values, a user column, no Preis), the
\* row of a listing c that is no longer on the site, a hand-made row with
\* neither Objektnummer nor Webseite, a row known by its URL only, and a row
\* with all cells empty, which Airtable lists without any field
RowChoices ==
  {make_record(parse_detail(Urls[1], Page1, EmptyDict)),
   [Objektnummer |-> StrV(<<" ", "a">>), Titel |-> StrV(<<"T", "0">>),
    Kurzbeschreibung |-> StrV(<<"k", " ">>), Notiz |-> StrV(<<"n">>)],
   make_record(parse_detail(BASE \o KAUF \o <<"c", "/">>, Page2, EmptyDict)),
   [Titel |-> StrV(<<"T", "1">>), Notiz |-> StrV(<<"n">>)],
   [Webseite |-> StrV(Urls[3]), Titel |-> StrV(<<"T", "1">>),
    Preis |-> NumV(1200, <<>>)],
   EmptyDict}

TablesOfLen(n) ==
  {[j \in 1..n |-> [id |-> j, fields |-> fs[j]]] : fs \in [1..n -> RowChoices]}

BigTable ==
  [j \in 1..(BatchSize + 1) |->
     [id |-> j,
      fields |-> [Objektnummer |-> StrV(Rep("c", j)), Titel |-> StrV(<<"T", "0">>)]]]

Tables == UNION {TablesOfLen(n) : n \in 0..MaxRemote} \cup {BigTable}

\* which of AIRTABLE_TOKEN, AIRTABLE_BASE, AIRTABLE_TABLE_ID are set
Configs ==
  {[token |-> TRUE, base |-> TRUE, table |-> TRUE],
   [token |-> FALSE, base |-> TRUE, table |-> TRUE],
   [token |-> TRUE, base |-> FALSE, table |-> TRUE],
   [token |-> TRUE, base |-> TRUE, table |-> FALSE]}

(***************************************************************************)
(* State.                                                                  *)
(***************************************************************************)
VARIABLES
  config,         \* the three environment values, as set / not set
  site,           \* the website during this process's runs
  remote,         \* the Airtable table: sequence of [id, fields]
  nextId,         \* id Airtable gives to the next created row
  run,            \* number of the current invocation of run()
  pc,             \* position in run()
  prev,           \* previous invocation: how it ended, its records, its last request
  cache,          \* KURZBESCHREIBUNG_CACHE
  detail_links,   \* run(): detail_links
  i,              \* index of the scrape loop, offset of the batch loops
  all_rows,       \* run(): all_rows
  csv,            \* heyen_immobilien.csv, and the run that wrote it
  allowed,        \* run(): allowed
  listed,         \* run(): all_ids, all_fields
  existing,       \* run(): existing
  desired,        \* run(): desired
  to_create,      \* run(): to_create
  to_update,      \* run(): to_update
  keep,           \* run(): keep
  to_delete_ids,  \* run(): to_delete_ids
  sent,           \* the Airtable requests of this run, in order
  kin,            \* records handed to unique_key
  kout            \* the keys it returned

envvars == <<config, site>>

storevars == <<remote, nextId>>

planvars == <<allowed, listed, existing, desired, to_create, to_update, keep,
              to_delete_ids>>

keyvars == <<kin, kout>>

vars == <<config, site, remote, nextId, run, pc, prev, cache, detail_links, i,
          all_rows, csv, allowed, listed, existing, desired, to_create,
          to_update, keep, to_delete_ids, sent, kin, kout>>

\* mutant: the table id is not looked at
airtable_table_segment_base_only == config.base

\* AIRTABLE_TOKEN and AIRTABLE_BASE and airtable_table_segment()
airtable_table_segment == config.base /\ config.table

Configured == config.token /\ config.base /\ airtable_table_segment

Request(op, items, ok) == [op |-> op, items |-> items, ok |-> ok]

\* the locals of run() and the module globals at process start
FreshRun ==
  /\ pc = "start"
  /\ cache = EmptyDict
  /\ detail_links = <<>>
  /\ i = 0
  /\ all_rows = <<>>
  /\ allowed = {}
  /\ listed = <<>>
  /\ existing = <<>>
  /\ desired = <<>>
  /\ to_create = <<>>
  /\ to_update = <<>>
  /\ keep = {}
  /\ to_delete_ids = <<>>
  /\ sent = <<>>

Init ==
  /\ config \in Configs
  /\ site \in Sites
  /\ remote \in Tables
  /\ nextId = Len(remote) + 1
  /\ run = 1
  /\ prev = [pc |-> "none", rows |-> <<>>, last |-> "none"]
  /\ csv = [written |-> FALSE, run |-> 0, rows |-> <<>>]
  /\ FreshRun
  /\ kin = <<>>
  /\ kout = <<>>

(***************************************************************************)
(* run(), step by step.                                                    *)
(***************************************************************************)
\* load_kurzbeschreibung_cache(): nothing without configuration; a listing
\* that raises is caught and leaves the cache empty
LoadCache ==
  /\ pc = "start"
  /\ \/ /\ ~Configured
        /\ UNCHANGED <<cache, sent>>
     \/ /\ Configured
        /\ cache' = CacheFrom(remote, Len(remote))
        /\ sent' = Append(sent, Request("list", <<>>, TRUE))
     \/ /\ Configured
        /\ sent' = Append(sent, Request("list", <<>>, FALSE))
        /\ UNCHANGED cache
  /\ pc' = "links"
  /\ UNCHANGED <<envvars, storevars, run, prev, detail_links, i, all_rows, csv,
                 planvars, keyvars>>

\* collect_detail_links() and the return on an empty link list
CollectLinks ==
  /\ pc = "links"
  /\ detail_links' = [j \in 1..Len(site) |-> site[j].url]
  /\ IF Len(site) = 0
       THEN pc' = "done" /\ i' = 0
       ELSE pc' = "scrape" /\ i' = 1
  /\ UNCHANGED <<envvars, storevars, run, prev, cache, all_rows, csv, planvars,
                 sent, keyvars>>

\* mutant: with the configuration set the synchronization starts right after
\* the scrape loop, the CSV file is not written first
ScrapeOne_sync_first ==
  /\ pc = "scrape"
  /\ i <= Len(detail_links)
  /\ all_rows' =
       IF site[i].page.ok
         THEN Append(all_rows,
                     make_record(parse_detail(detail_links[i], site[i].page, cache)))
         ELSE all_rows
  /\ IF i < Len(detail_links)
       THEN pc' = "scrape" /\ i' = i + 1
       ELSE pc' = (IF all_rows' = <<>> THEN "done"
                   ELSE IF config.token /\ config.base /\ config.table THEN "sync"
                   ELSE "export")
            /\ i' = 0
  /\ UNCHANGED <<envvars, storevars, run, prev, cache, detail_links, csv,
                 planvars, sent, keyvars>>

\* mutant: no try/except in the loop, the first failing page ends the scrape
ScrapeOne_stop_at_failure ==
  /\ pc = "scrape"
  /\ i <= Len(detail_links)
  /\ all_rows' =
       IF site[i].page.ok
         THEN Append(all_rows,
                     make_record(parse_detail(detail_links[i], site[i].page, cache)))
         ELSE all_rows
  /\ IF i < Len(detail_links) /\ site[i].page.ok
       THEN pc' = "scrape" /\ i' = i + 1
       ELSE pc' = (IF all_rows' = <<>> THEN "done" ELSE "export") /\ i' = 0
  /\ UNCHANGED <<envvars, storevars, run, prev, cache, detail_links, csv,
                 planvars, sent, keyvars>>

\* mutant: the description made for a page is stored in the cache
ScrapeOne_caching ==
  /\ pc = "scrape"
  /\ i <= Len(detail_links)
  /\ LET record == make_record(parse_detail(detail_links[i], site[i].page, cache))
     IN /\ all_rows' = IF site[i].page.ok THEN Append(all_rows, record) ELSE all_rows
        /\ cache' = IF site[i].page.ok
                      THEN Put(cache, extract_objektnummer(detail_links[i]),
                               record["Kurzbeschreibung"].s)
                      ELSE cache
  /\ IF i < Len(detail_links)
       THEN pc' = "scrape" /\ i' = i + 1
       ELSE pc' = (IF all_rows' = <<>> THEN "done" ELSE "export") /\ i' = 0
  /\ UNCHANGED <<envvars, storevars, run, prev, detail_links, csv,
                 planvars, sent, keyvars>>

\* mutant: the return on an empty all_rows is missing
ScrapeOne_no_guard ==
  /\ pc = "scrape"
  /\ i <= Len(detail_links)
  /\ all_rows' =
       IF site[i].page.ok
         THEN Append(all_rows,
                     make_record(parse_detail(detail_links[i], site[i].page, cache)))
         ELSE all_rows
  /\ IF i < Len(detail_links)
       THEN pc' = "scrape" /\ i' = i + 1
       ELSE pc' = "export" /\ i' = 0
  /\ UNCHANGED <<envvars, storevars, run, prev, cache, detail_links, csv,
                 planvars, sent, keyvars>>

\* mutant: a failing page still yields the record of its URL
ScrapeOne_record_on_failure ==
  /\ pc = "scrape"
  /\ i <= Len(detail_links)
  /\ all_rows' =
       Append(all_rows, make_record(parse_detail(detail_links[i], site[i].page, cache)))
  /\ IF i < Len(detail_links)
       THEN pc' = "scrape" /\ i' = i + 1
       ELSE pc' = (IF all_rows' = <<>> THEN "done" ELSE "export") /\ i' = 0
  /\ UNCHANGED <<envvars, storevars, run, prev, cache, detail_links, csv,
                 planvars, sent, keyvars>>

\* one iteration of the scrape loop; after the last one, the return when no
\* record was extracted
ScrapeOne ==
  /\ pc = "scrape"
  /\ i <= Len(detail_links)
  /\ all_rows' =
       IF site[i].page.ok
         THEN Append(all_rows,
                     make_record(parse_detail(detail_links[i], site[i].page, cache)))
         ELSE all_rows
  /\ IF i < Len(detail_links)
       THEN pc' = "scrape" /\ i' = i + 1
       ELSE pc' = (IF all_rows' = <<>> THEN "done" ELSE "export") /\ i' = 0
  /\ UNCHANGED <<envvars, storevars, run, prev, cache, detail_links, csv,
                 planvars, sent, keyvars>>

cols == {"Titel", "Kategorie", "Webseite", "Objektnummer", "Objekttyp",
         "Beschreibung", "Kurzbeschreibung", "Bild", "Preis", "Standort"}

\* csv.DictWriter(..., extrasaction='ignore'): a missing column is written empty
CsvRow(record) ==
  [c \in cols |-> IF c \in DOMAIN record THEN record[c] ELSE StrV(<<>>)]

ExportCsv ==
  /\ pc = "export"
  /\ csv' = [written |-> TRUE,
             run |-> run,
             rows |-> [j \in 1..Len(all_rows) |-> CsvRow(all_rows[j])]]
  /\ pc' = IF Configured THEN "sync" ELSE "done"
  /\ UNCHANGED <<envvars, storevars, run, prev, cache, detail_links, i,
                 all_rows, planvars, sent, keyvars>>

\* mutant: the deletes are applied before the updates
PhaseAfter_delete_first(p, creates, updates, deletes) ==
  IF p = "sync" /\ creates # <<>> THEN "create"
  ELSE IF p \in {"sync", "create"} /\ deletes # <<>> THEN "delete"
  ELSE IF p \in {"sync", "create"} /\ updates # <<>> THEN "update"
  ELSE "done"

\* the phase that follows phase p: the first of create, update, delete after
\* p whose list is not empty
PhaseAfter(p, creates, updates, deletes) ==
  IF p = "sync" /\ creates # <<>> THEN "create"
  ELSE IF p \in {"sync", "create"} /\ updates # <<>> THEN "update"
  ELSE IF p \in {"sync", "create", "update"} /\ deletes # <<>> THEN "delete"
  ELSE "done"

\* airtable_existing_fields(), airtable_list_all() and the plan
Plan ==
  /\ pc = "sync"
  /\ LET ex == BuildExisting(remote, Len(remote))
         al == airtable_existing_fields(remote)
         des == BuildDesired(all_rows, al, Len(all_rows))
         kp == PlanKeep(des, ex)
         cr == PlanCreate(des, ex, Len(des))
         up == PlanUpdate(des, ex, Len(des))
         de == PlanDelete(ex, kp, Len(ex))
     IN /\ allowed' = al
        /\ listed' = remote
        /\ existing' = ex
        /\ desired' = des
        /\ keep' = kp
        /\ to_create' = cr
        /\ to_update' = up
        /\ to_delete_ids' = de
        /\ pc' = PhaseAfter("sync", cr, up, de)
  /\ sent' = sent \o <<Request("list", <<>>, TRUE), Request("list", <<>>, TRUE)>>
  /\ i' = 0
  /\ UNCHANGED <<envvars, storevars, run, prev, cache, detail_links, all_rows,
                 csv, keyvars>>

\* one of the two listings answers with an error status: raise_for_status()
\* ends the run before anything is planned
PlanFails ==
  /\ pc = "sync"
  /\ \/ sent' = Append(sent, Request("list", <<>>, FALSE))
     \/ sent' = sent \o <<Request("list", <<>>, TRUE), Request("list", <<>>, FALSE)>>
  /\ pc' = "aborted"
  /\ UNCHANGED <<envvars, storevars, run, prev, cache, detail_links, i,
                 all_rows, csv, planvars, keyvars>>

AsItems(records) == [j \in 1..Len(records) |-> [id |-> 0, fields |-> records[j]]]

IdItems(ids) == [j \in 1..Len(ids) |-> [id |-> ids[j], fields |-> EmptyDict]]

\* one iteration of the loop of airtable_batch_create
CreateBatch ==
  /\ pc = "create"
  /\ LET batch == Batch(to_create, i)
     IN \/ /\ remote' = StoreCreate(remote, nextId, batch)
           /\ nextId' = nextId + Len(batch)
           /\ sent' = Append(sent, Request("create", AsItems(batch), TRUE))
           /\ IF i + BatchSize < Len(to_create)
                THEN pc' = "create" /\ i' = i + BatchSize
                ELSE pc' = PhaseAfter("create", to_create, to_update, to_delete_ids)
                     /\ i' = 0
        \/ /\ sent' = Append(sent, Request("create", AsItems(batch), FALSE))
           /\ pc' = "aborted"
           /\ UNCHANGED <<remote, nextId, i>>
  /\ UNCHANGED <<envvars, run, prev, cache, detail_links, all_rows, csv,
                 planvars, keyvars>>

\* mutant: the response status is not checked, the loop goes on after an error
UpdateBatch_unchecked ==
  /\ pc = "update"
  /\ LET batch == Batch(to_update, i)
     IN /\ \/ /\ remote' = StoreUpdate(remote, batch)
              /\ sent' = Append(sent, Request("update", batch, TRUE))
           \/ /\ sent' = Append(sent, Request("update", batch, FALSE))
              /\ UNCHANGED remote
        /\ IF i + BatchSize < Len(to_update)
             THEN pc' = "update" /\ i' = i + BatchSize
             ELSE pc' = PhaseAfter("update", to_create, to_update, to_delete_ids)
                  /\ i' = 0
  /\ UNCHANGED <<envvars, nextId, run, prev, cache, detail_links, all_rows, csv,
                 planvars, keyvars>>

\* one iteration of the loop of airtable_batch_update
UpdateBatch ==
  /\ pc = "update"
  /\ LET batch == Batch(to_update, i)
     IN \/ /\ remote' = StoreUpdate(remote, batch)
           /\ sent' = Append(sent, Request("update", batch, TRUE))
           /\ IF i + BatchSize < Len(to_update)
                THEN pc' = "update" /\ i' = i + BatchSize
                ELSE pc' = PhaseAfter("update", to_create, to_update, to_delete_ids)
                     /\ i' = 0
        \/ /\ sent' = Append(sent, Request("update", batch, FALSE))
           /\ pc' = "aborted"
           /\ UNCHANGED <<remote, i>>
  /\ UNCHANGED <<envvars, nextId, run, prev, cache, detail_links, all_rows, csv,
                 planvars, keyvars>>

\* one iteration of the loop of airtable_batch_delete
DeleteBatch ==
  /\ pc = "delete"
  /\ LET batch == Batch(to_delete_ids, i)
     IN \/ /\ remote' = StoreDelete(remote, batch)
           /\ sent' = Append(sent, Request("delete", IdItems(batch), TRUE))
           /\ IF i + BatchSize < Len(to_delete_ids)
                THEN pc' = "delete" /\ i' = i + BatchSize
                ELSE pc' = "done" /\ i' = 0
        \/ /\ sent' = Append(sent, Request("delete", IdItems(batch), FALSE))
           /\ pc' = "aborted"
           /\ UNCHANGED <<remote, i>>
  /\ UNCHANGED <<envvars, nextId, run, prev, cache, detail_links, all_rows, csv,
                 planvars, keyvars>>

\* the script is started again: a new process, with the table and the CSV
\* file as the last run left them
Rerun ==
  /\ pc \in {"done", "aborted"}
  /\ run < MaxRuns
  /\ run' = run + 1
  /\ prev' = [pc |-> pc, rows |-> all_rows,
              last |-> IF sent = <<>> THEN "none" ELSE sent[Len(sent)].op]
  /\ pc' = "start"
  /\ cache' = EmptyDict
  /\ detail_links' = <<>>
  /\ i' = 0
  /\ all_rows' = <<>>
  /\ allowed' = {}
  /\ listed' = <<>>
  /\ existing' = <<>>
  /\ desired' = <<>>
  /\ to_create' = <<>>
  /\ to_update' = <<>>
  /\ keep' = {}
  /\ to_delete_ids' = <<>>
  /\ sent' = <<>>
  /\ UNCHANGED <<envvars, storevars, csv, keyvars>>

Next ==
  \/ LoadCache
  \/ CollectLinks
  \/ ScrapeOne
  \/ ExportCsv
  \/ Plan
  \/ PlanFails
  \/ CreateBatch
  \/ UpdateBatch
  \/ DeleteBatch
  \/ Rerun

Spec == Init /\ [][Next]_vars

TypeOK ==
  /\ pc \in {"start", "links", "scrape", "export", "sync", "create", "update",
             "delete", "done", "aborted"}
  /\ run \in 1..MaxRuns

(***************************************************************************)
(* Properties.                                                             *)
(***************************************************************************)
\* the plan of the current run has been computed (run() plans only with at
\* least one record, so desired is not empty then)
Planned == desired # <<>>

ExistingKeys == DictKeys(existing)

DesiredKeys == DictKeys(desired)

Range(seq) == {seq[j] : j \in 1..Len(seq)}

UpdateIds == {to_update[j].id : j \in 1..Len(to_update)}

\* the keys whose remote row is the subject of an update / of a delete
UpdatedKeys == {k \in ExistingKeys : DictGet(existing, k).id \in UpdateIds}

DeletedKeys == {k \in ExistingKeys : DictGet(existing, k).id \in Range(to_delete_ids)}

\* C1: the plan partitions existingKeys \cup desiredKeys: the creates are the
\* records of the keys that are only desired (one create each), keep is the
\* set of keys in both, the deletes are the rows of the keys that are only
\* existing (one delete each), updates concern kept keys only (at most one
\* each), and no key is the subject of two of create, update, delete.
C1_PlanPartition ==
  Planned =>
    /\ Len(to_create) = Cardinality(DesiredKeys \ ExistingKeys)
    /\ \A k \in DesiredKeys \ ExistingKeys : DictGet(desired, k) \in Range(to_create)
    /\ keep = DesiredKeys \cap ExistingKeys
    /\ UpdatedKeys \subseteq keep
    /\ Len(to_update) = Cardinality(UpdatedKeys)
    /\ DeletedKeys = ExistingKeys \ DesiredKeys
    /\ Len(to_delete_ids) = Cardinality(DeletedKeys)
    /\ UpdatedKeys \cap DeletedKeys = {}
    /\ (DesiredKeys \ ExistingKeys) \cap (UpdatedKeys \cup DeletedKeys) = {}

C1_Witness ==
  /\ Planned
  /\ to_create # <<>>
  /\ to_update # <<>>
  /\ to_delete_ids # <<>>
  /\ keep # {}

\* the desired fields of key k whose value differs from the matched row's
ChangedFields(k) ==
  {fld \in DOMAIN DictGet(desired, k) :
     \/ fld \notin DOMAIN DictGet(existing, k).fields
     \/ DictGet(existing, k).fields[fld] # DictGet(desired, k)[fld]}

\* C4: for every key in both maps, an update is emitted exactly when some
\* desired field differs from the matched row; it carries that row's id and
\* exactly the differing fields with their desired values; every update
\* belongs to such a key.
C4_DiffMinimal ==
  Planned =>
    /\ \A k \in DesiredKeys \cap ExistingKeys :
         LET ups == {j \in 1..Len(to_update) :
                       to_update[j].id = DictGet(existing, k).id}
         IN IF ChangedFields(k) = {}
              THEN ups = {}
              ELSE /\ Cardinality(ups) = 1
                   /\ \A j \in ups :
                        /\ DOMAIN to_update[j].fields = ChangedFields(k)
                        /\ \A fld \in ChangedFields(k) :
                             to_update[j].fields[fld] = DictGet(desired, k)[fld]
    /\ \A j \in 1..Len(to_update) :
         \E k \in DesiredKeys \cap ExistingKeys :
           to_update[j].id = DictGet(existing, k).id

C4_Witness ==
  /\ Planned
  /\ \E k \in DesiredKeys \cap ExistingKeys :
       /\ ChangedFields(k) # {}
       /\ ChangedFields(k) # DOMAIN DictGet(desired, k)
  /\ \E k \in DesiredKeys \cap ExistingKeys : ChangedFields(k) = {}

\* the create and update requests sent so far in this run
Writes == {j \in 1..Len(sent) : sent[j].op \in {"create", "update"}}

WrittenFields ==
  UNION {UNION {DOMAIN sent[j].items[b].fields : b \in 1..Len(sent[j].items)} :
           j \in Writes}

PlannedFields ==
  UNION ({DOMAIN to_create[j] : j \in 1..Len(to_create)}
         \cup {DOMAIN to_update[j].fields : j \in 1..Len(to_update)})

\* the records of this run that have key k
RecordsOf(k) == {r \in Range(all_rows) : unique_key(r) = k}

\* C9 as claimed: with a non-empty whitelist every field of a create or an
\* update is in the whitelist and the sanitized record is the record cut to
\* the whitelist; with an empty whitelist it is the whole record.
C9_Original ==
  Planned =>
    /\ allowed # {} => PlannedFields \cup WrittenFields \subseteq allowed
    /\ \A j \in 1..Len(desired) :
         \E r \in RecordsOf(desired[j].k) :
           desired[j].v = IF allowed = {} THEN r ELSE Restrict(r, allowed)

\* C9 amended: with a non-empty whitelist every field of a create or an
\* update is in the whitelist or is Kurzbeschreibung, and the sanitized
\* record is the record cut to the whitelist plus Kurzbeschreibung; with an
\* empty whitelist it is the whole record.
C9_WhitelistOrKurzbeschreibung ==
  Planned =>
    /\ allowed # {} =>
         PlannedFields \cup WrittenFields \subseteq allowed \cup {"Kurzbeschreibung"}
    /\ \A j \in 1..Len(desired) :
         \E r \in RecordsOf(desired[j].k) :
           desired[j].v = IF allowed = {} THEN r
                          ELSE Restrict(r, allowed \cup {"Kurzbeschreibung"})

C9_Witness ==
  /\ pc = "done"
  /\ allowed # {}
  /\ "Kurzbeschreibung" \notin allowed
  /\ "Kurzbeschreibung" \in WrittenFields
  /\ \E j \in 1..Len(desired) :
       \E r \in RecordsOf(desired[j].k) : DOMAIN desired[j].v # DOMAIN r

\* the row with this id in a table
RowOf(tbl, id) == tbl[CHOOSE j \in 1..Len(tbl) : tbl[j].id = id]

HasRow(tbl, id) == \E j \in 1..Len(tbl) : tbl[j].id = id

\* C10: an update holds only fields of the desired record, and at every
\* point of the synchronization the row matched by a kept key still exists
\* and holds, for each field the desired record does not define, the value
\* it had when the table was listed.
C10_AbsentFieldsUntouched ==
  Planned =>
    \A k \in keep :
      LET old == DictGet(existing, k)
          des == DictGet(desired, k)
      IN /\ \A j \in 1..Len(to_update) :
              to_update[j].id = old.id => DOMAIN to_update[j].fields \subseteq DOMAIN des
         /\ HasRow(remote, old.id)
         /\ \A fld \in (DOMAIN old.fields) \ (DOMAIN des) :
              /\ fld \in DOMAIN RowOf(remote, old.id).fields
              /\ RowOf(remote, old.id).fields[fld] = old.fields[fld]

\* an update of a kept row has been applied; the row holds a user column and
\* a Preis that the desired record does not define
C10_Witness ==
  /\ pc = "done"
  /\ \E k \in keep :
       LET old == DictGet(existing, k)
           des == DictGet(desired, k)
       IN /\ old.id \in UpdateIds
          /\ \E fld \in (DOMAIN old.fields) \ (DOMAIN des) : TRUE
          /\ RowOf(remote, old.id).fields # old.fields

\* the keys of the rows of a table
KeysIn(tbl) == {unique_key(tbl[j].fields) : j \in 1..Len(tbl)}

SyncCompleted == pc = "done" /\ Planned

\* C3 as claimed: after a completed synchronization every row that was
\* listed with a key outside the desired keys is gone, and the table holds
\* only rows whose key is a desired key.
C3_Original ==
  SyncCompleted =>
    /\ \A j \in 1..Len(listed) :
         unique_key(listed[j].fields) \notin DesiredKeys => ~HasRow(remote, listed[j].id)
    /\ KeysIn(remote) \subseteq DesiredKeys

\* the previous invocation completed its synchronization with the records
\* this invocation extracted
AfterCompletedRunWithSameRecords ==
  /\ Planned
  /\ prev.pc = "done"
  /\ prev.rows = all_rows

\* C2 as claimed: a run that follows a completed run with the same desired
\* records plans no create, no update and no delete.
C2_Original ==
  AfterCompletedRunWithSameRecords =>
    to_create = <<>> /\ to_update = <<>> /\ to_delete_ids = <<>>

\* one row per desired key holding the desired values, no other row
Converged ==
  /\ \A k \in DesiredKeys :
       /\ Cardinality({j \in 1..Len(remote) : unique_key(remote[j].fields) = k}) = 1
       /\ \A j \in 1..Len(remote) :
            unique_key(remote[j].fields) = k =>
              \A fld \in DOMAIN DictGet(desired, k) :
                Get(remote[j].fields, fld) = DictGet(desired, k)[fld]
  /\ KeysIn(remote) \subseteq DesiredKeys

\* C6 as claimed: when the previous invocation aborted at a create, update
\* or delete batch and this one, with the same records, completes, the table
\* has converged to the desired set.
C6_Original ==
  (/\ SyncCompleted
   /\ prev.pc = "aborted"
   /\ prev.last \in {"create", "update", "delete"}
   /\ prev.rows = all_rows)
  => Converged

\* the table after the requests sent[1..n] that succeeded, from the listed
\* table; firstId is the id of the first row created
RECURSIVE Replay(_, _, _, _)
Replay(reqs, n, tbl, firstId) ==
  IF n = 0 THEN [tbl |-> tbl, nid |-> firstId]
  ELSE LET before == Replay(reqs, n - 1, tbl, firstId)
           req == reqs[n]
       IN IF ~req.ok \/ req.op = "list" THEN before
          ELSE IF req.op = "create"
            THEN [tbl |-> before.tbl
                            \o [b \in 1..Len(req.items) |->
                                  [id |-> before.nid + b - 1,
                                   fields |-> req.items[b].fields]],
                  nid |-> before.nid + Len(req.items)]
          ELSE IF req.op = "update"
            THEN [tbl |-> [j \in 1..Len(before.tbl) |->
                             IF \E b \in 1..Len(req.items) :
                                  req.items[b].id = before.tbl[j].id
                               THEN [id |-> before.tbl[j].id,
                                     fields |->
                                       Merge(before.tbl[j].fields,
                                             req.items[CHOOSE b \in 1..Len(req.items) :
                                               req.items[b].id = before.tbl[j].id].fields)]
                               ELSE before.tbl[j]],
                  nid |-> before.nid]
          ELSE [tbl |-> SelectSeq(before.tbl,
                                  LAMBDA r : \A b \in 1..Len(req.items) :
                                               req.items[b].id # r.id),
                nid |-> before.nid]

\* C5: a create, update or delete request that failed is the last request
\* of its run and the run has aborted (no further batch, no later operation,
\* no retry); the table is the listed table with exactly the batches that
\* succeeded before it applied (no rollback).
C5_BatchFailureFatal ==
  /\ \A j \in 1..Len(sent) :
       (sent[j].op # "list" /\ ~sent[j].ok) => (j = Len(sent) /\ pc = "aborted")
  /\ Planned =>
       \E firstId \in 1..nextId :
         /\ Replay(sent, Len(sent), listed, firstId).tbl = remote
         /\ Replay(sent, Len(sent), listed, firstId).nid = nextId

\* a create batch was applied, the update batch after it failed, and deletes
\* were planned
C5_Witness ==
  /\ pc = "aborted"
  /\ to_delete_ids # <<>>
  /\ \E j \in 1..Len(sent) : sent[j].op = "create" /\ sent[j].ok
  /\ sent[Len(sent)].op = "update"
  /\ ~sent[Len(sent)].ok
  /\ remote # listed

\* one of AIRTABLE_TOKEN, AIRTABLE_BASE, AIRTABLE_TABLE_ID is not set
ConfigAbsent == ~config.token \/ ~config.base \/ ~config.table

\* the links whose detail page is fetched and parsed without an exception
Succeeded == SelectSeq(site, LAMBDA e : e.page.ok)

\* the records of those links, in link order
SucceededRecords ==
  [j \in 1..Len(Succeeded) |->
     make_record(parse_detail(Succeeded[j].url, Succeeded[j].page, cache))]

\* heyen_immobilien.csv has been written by this run with all its records
ExportDone ==
  /\ csv.written
  /\ csv.run = run
  /\ csv.rows = [j \in 1..Len(all_rows) |-> CsvRow(all_rows[j])]

\* C11 as claimed: with one of the three configuration values absent the
\* run sends no request, does not abort, and ends with the extraction and
\* the export done.
C11_Original ==
  ConfigAbsent =>
    /\ sent = <<>>
    /\ pc \in {"start", "links", "scrape", "export", "done"}
    /\ pc = "done" => (all_rows = SucceededRecords /\ ExportDone)

\* C11 amended: with one of the three configuration values absent the run
\* sends no request at all (no listing for the cache either), never aborts
\* and never enters the synchronization, and ends with every succeeding
\* link extracted and, when at least one record was extracted, the export
\* written with these records.
C11_ConfigAbsentNoRequest ==
  ConfigAbsent =>
    /\ sent = <<>>
    /\ cache = EmptyDict
    /\ pc \in {"start", "links", "scrape", "export", "done"}
    /\ pc = "done" =>
         /\ all_rows = SucceededRecords
         /\ all_rows # <<>> => ExportDone

\* only the table id is missing, the table holds rows, and the run has ended
\* with a record exported
C11_Witness ==
  /\ config.token /\ config.base /\ ~config.table
  /\ remote # <<>>
  /\ pc = "done"
  /\ all_rows # <<>>
  /\ ExportDone
  /\ sent = <<>>

\* the create, update and delete requests sent so far in this run
WriteRequests == {j \in 1..Len(sent) : sent[j].op \in {"create", "update", "delete"}}

\* C12: the export is written, with every extracted record, before the
\* synchronization starts: it is there when the table is listed for the plan
\* and when any create, update or delete request has been sent, and a run
\* that extracted a record ends, completed or aborted at any listing or
\* batch, with the export written.
C12_ExportBeforeSync ==
  /\ pc \in {"sync", "create", "update", "delete"} => (all_rows # <<>> /\ ExportDone)
  /\ WriteRequests # {} => ExportDone
  /\ (pc \in {"done", "aborted"} /\ all_rows # <<>>) => ExportDone

\* the second invocation aborted at its first write request, a create, and
\* its export holds its two records
C12_Witness ==
  /\ run = 2
  /\ pc = "aborted"
  /\ WriteRequests = {Len(sent)}
  /\ sent[Len(sent)].op = "create"
  /\ Len(all_rows) = 2
  /\ ExportDone

\* the items of the requests with operation op among sent[1..n] that
\* succeeded, in the order sent
RECURSIVE SentItems(_, _)
SentItems(op, n) ==
  IF n = 0 THEN <<>>
  ELSE SentItems(op, n - 1)
         \o (IF sent[n].op = op /\ sent[n].ok THEN sent[n].items ELSE <<>>)

Rank(op) ==
  CASE op = "list" -> 0
    [] op = "create" -> 1
    [] op = "update" -> 2
    [] op = "delete" -> 3

\* C13: the requests of a run go out in the order create, update, delete;
\* when an update request is sent every planned create has been sent with
\* success, and when a delete request is sent every planned create and
\* every planned update has been sent with success.
C13_ApplyOrder ==
  /\ \A a, b \in 1..Len(sent) : a < b => Rank(sent[a].op) <= Rank(sent[b].op)
  /\ (\E j \in 1..Len(sent) : sent[j].op = "update") =>
       SentItems("create", Len(sent)) = AsItems(to_create)
  /\ (\E j \in 1..Len(sent) : sent[j].op = "delete") =>
       /\ SentItems("create", Len(sent)) = AsItems(to_create)
       /\ SentItems("update", Len(sent)) = to_update

\* a run that sent creates, updates and deletes and completed
C13_Witness ==
  /\ pc = "done"
  /\ \E j \in 1..Len(sent) : sent[j].op = "create"
  /\ \E j \in 1..Len(sent) : sent[j].op = "update"
  /\ \E j \in 1..Len(sent) : sent[j].op = "delete"

\* length of the description of a scraped record
DescriptionLen(r) == Len(TextOrEmpty(r, "Beschreibung"))

\* C15 as claimed: the record kept in desired for a key is, sanitized, a
\* record of that key whose description is at least as long as that of
\* every record of the key.
C15_Original ==
  Planned =>
    \A k \in DesiredKeys :
      \E kept \in RecordsOf(k) :
        /\ DictGet(desired, k) = sanitize_record_for_airtable(kept, allowed)
        /\ \A r \in RecordsOf(k) : DescriptionLen(r) <= DescriptionLen(kept)

\* the records of the succeeding links among the first n links
RecordsOfFirst(n) ==
  LET ok == SelectSeq(SubSeq(site, 1, n), LAMBDA e : e.page.ok)
  IN [j \in 1..Len(ok) |-> make_record(parse_detail(ok[j].url, ok[j].page, cache))]

\* the scrape loop is at link i with exactly the records of the succeeding
\* links before it; after the loop all_rows holds exactly the records of the
\* succeeding links, in link order
ScrapeLoopState ==
  /\ pc \notin {"start", "links"} => detail_links = [j \in 1..Len(site) |-> site[j].url]
  /\ pc = "scrape" => (i \in 1..Len(detail_links) /\ all_rows = RecordsOfFirst(i - 1))
  /\ pc \notin {"start", "links", "scrape"} => all_rows = RecordsOfFirst(Len(site))

\* a step of the loop goes to the next link, failing page or not, and
\* leaves the loop only after the last link, never by aborting the run
ScrapeLoopStep ==
  pc = "scrape" =>
    /\ all_rows' = IF site[i].page.ok THEN RecordsOfFirst(i) ELSE all_rows
    /\ IF i < Len(detail_links)
         THEN pc' = "scrape" /\ i' = i + 1
         ELSE pc' \in {"export", "done"}

\* C16: a failing detail page does not end the scrape loop: the links are
\* attempted one by one in link order, each once, a failing link adds no
\* record, and the result is exactly the records of the succeeding links in
\* link order.
C16_ScrapeLoopIsolation == []ScrapeLoopState /\ [][ScrapeLoopStep]_vars

\* the first page failed, the second was extracted, and no record is lost
C16_Witness ==
  /\ pc = "export"
  /\ Len(site) = 2
  /\ ~site[1].page.ok
  /\ site[2].page.ok
  /\ Len(all_rows) = 1
  /\ all_rows[1]["Webseite"] = StrV(site[2].url)

\* the cache is empty until the load, and a planned run still has the cache
\* of the load: empty, or the descriptions of the table as it was listed
CacheIsTheLoadedOne ==
  /\ pc = "start" => (cache = EmptyDict /\ detail_links = <<>> /\ all_rows = <<>>)
  /\ Planned => cache \in {EmptyDict, CacheFrom(listed, Len(listed))}

\* within one process only the step at the start of run() changes the cache
CacheWrittenAtStart ==
  (cache' # cache /\ run' = run) => (pc = "start" /\ pc' = "links")

\* C17: the cache is written by load_kurzbeschreibung_cache only, at the
\* start of run() before the links are collected and any page is scraped;
\* generation, scraping and the synchronization leave it as loaded.
C17_CacheWrittenOnlyAtLoad == []CacheIsTheLoadedOne /\ [][CacheWrittenAtStart]_vars

\* a run that loaded a cache, generated a description for a listing not in
\* it, and created the row: the table now holds a description the cache
\* does not
C17_Witness ==
  /\ pc = "done"
  /\ cache # EmptyDict
  /\ \E j \in 1..Len(sent) : sent[j].op = "create" /\ sent[j].ok
  /\ \E j \in 1..Len(all_rows) :
       /\ all_rows[j]["Objektnummer"].s \notin DOMAIN cache
       /\ all_rows[j]["Kurzbeschreibung"].s # <<>>
  /\ cache # CacheFrom(remote, Len(remote))

\* past the scrape with no record (no link found, or every page failed) the
\* run has returned: nothing was planned, no request but the listing of the
\* cache load was sent, and this run wrote no export
EmptyScrapeReturns ==
  (pc \notin {"start", "links", "scrape"} /\ all_rows = <<>>) =>
    /\ pc = "done"
    /\ ~Planned
    /\ WriteRequests = {}
    /\ Len(sent) <= 1
    /\ ~(csv.written /\ csv.run = run)

\* while no record is extracted no step changes the table
EmptyScrapeKeepsTable ==
  (all_rows = <<>> /\ all_rows' = <<>>) => remote' = remote

\* C18: when no link is found or no page yields a record, run() returns
\* before the synchronization block: no create, update or delete request is
\* sent and the table is left as it was.
C18_EmptyScrapeGuard == []EmptyScrapeReturns /\ [][EmptyScrapeKeepsTable]_vars

\* configured run on a table with rows, both detail pages failed
C18_Witness ==
  /\ config.token /\ config.base /\ config.table
  /\ remote # <<>>
  /\ Len(detail_links) = 2
  /\ ~site[1].page.ok
  /\ ~site[2].page.ok
  /\ pc = "done"
  /\ all_rows = <<>>

\* the key of the record that would be made of the detail page at url: it is
\* the Objektnummer taken from the URL, whatever the page holds
ListingKey(url) == unique_key(make_record(parse_detail(url, FailPage, cache)))

FailedLinks == {j \in 1..Len(site) : ~site[j].page.ok}

\* the keys of the links that were extracted
SucceededKeys == {ListingKey(site[j].url) : j \in (1..Len(site)) \ FailedLinks}

\* the row matched to key k is planned for deletion, and is gone once the
\* synchronization has completed
MatchedRowDeleted(k) ==
  k \in ExistingKeys =>
    /\ DictGet(existing, k).id \in Range(to_delete_ids)
    /\ SyncCompleted => ~HasRow(remote, DictGet(existing, k).id)

\* C19 as claimed: the key of every listing whose page failed is absent from
\* desired, and the row matched to it is deleted.
C19_Original ==
  Planned =>
    \A j \in FailedLinks :
      /\ ListingKey(site[j].url) \notin DesiredKeys
      /\ MatchedRowDeleted(ListingKey(site[j].url))

\* C19 amended: the key of a listing whose page failed is absent from desired
\* and the row matched to it is deleted, unless a link that was extracted
\* has the same key: then the key is desired and the row is kept.
C19_FailedListingDeleted ==
  Planned =>
    \A j \in FailedLinks :
      LET k == ListingKey(site[j].url)
      IN IF k \in SucceededKeys
           THEN /\ k \in DesiredKeys
                /\ k \in ExistingKeys =>
                     /\ DictGet(existing, k).id \notin Range(to_delete_ids)
                     /\ HasRow(remote, DictGet(existing, k).id)
           ELSE /\ k \notin DesiredKeys
                /\ MatchedRowDeleted(k)

\* the page of listing a failed, listing b was extracted, and the row of
\* listing a has been deleted by the completed synchronization
C19_Witness ==
  /\ SyncCompleted
  /\ \E j \in FailedLinks :
       LET k == ListingKey(site[j].url)
       IN /\ k \notin SucceededKeys
          /\ k \in ExistingKeys
          /\ HasRow(listed, DictGet(existing, k).id)
          /\ ~HasRow(remote, DictGet(existing, k).id)

\* the rows of the table that a create request of this run made
CreatedRows == {j \in 1..Len(remote) : ~HasRow(listed, remote[j].id)}

\* C20 as claimed: the key under which run() files a desired record is the
\* key unique_key yields for the sanitized fields that are created as a row,
\* so every row created by the run has the key of a created desired record.
C20_Original ==
  Planned =>
    /\ \A j \in 1..Len(desired) :
         desired[j].k \notin ExistingKeys => unique_key(desired[j].v) = desired[j].k
    /\ \A j \in CreatedRows :
         unique_key(remote[j].fields) \in DesiredKeys \ ExistingKeys

\* the field names of the first listed row, none for an empty table
FirstRowFields == IF listed = <<>> THEN {} ELSE DOMAIN listed[1].fields

\* C21 as claimed: the whitelist is the field-name set of the first listed
\* row, and no create or update of the run writes a field that this row does
\* not hold, Kurzbeschreibung apart.
C21_Original ==
  Planned =>
    /\ allowed = FirstRowFields
    /\ listed # <<>> =>
         (PlannedFields \cup WrittenFields) \ {"Kurzbeschreibung"} \subseteq FirstRowFields

\* C21 amended: the whitelist is the field-name set of the first listed row;
\* when it is not empty no create or update of the run writes a field that
\* this row does not hold, Kurzbeschreibung apart, whatever the other rows
\* hold; when it is empty (no row, or a first row without fields) the
\* desired records are the whole records and all their fields are written.
C21_WhitelistFromFirstRow ==
  Planned =>
    /\ allowed = FirstRowFields
    /\ FirstRowFields # {} =>
         (PlannedFields \cup WrittenFields) \ {"Kurzbeschreibung"} \subseteq FirstRowFields
    /\ FirstRowFields = {} =>
         \A j \in 1..Len(desired) : desired[j].v \in RecordsOf(desired[j].k)

\* the second row holds desired fields that the first row lacks; the run
\* wrote to the table and none of these fields was written
C21_Witness ==
  /\ pc = "done"
  /\ Len(listed) = 2
  /\ WrittenFields # {}
  /\ \E fld \in (DOMAIN listed[2].fields) \ (FirstRowFields \cup {"Kurzbeschreibung"}) :
       /\ \E r \in Range(all_rows) : fld \in DOMAIN r
       /\ fld \notin WrittenFields

(***************************************************************************)
(* unique_key on its own: two records are drawn, then resolved.            *)
(***************************************************************************)
Absent == <<"absent">>

ObjektnummerChoices == {Absent, <<>>, <<" ">>, <<"a">>, <<" ", "a", " ">>, <<"b">>}

WebseiteChoices == {Absent, <<>>, <<"u">>, <<" ", "u">>}

RawRecord(obj, web, titel) ==
  LET r0 == [Titel |-> StrV(titel)]
      r1 == IF obj = Absent THEN r0 ELSE Put(r0, "Objektnummer", StrV(obj))
  IN IF web = Absent THEN r1 ELSE Put(r1, "Webseite", StrV(web))

\* records as a remote row or a hand-made record can hold them
RawRecords ==
  {RawRecord(obj, web, titel) :
     obj \in ObjektnummerChoices, web \in WebseiteChoices,
     titel \in {<<"T", "1">>, <<"T", "2">>}}

\* URLs under which a listing can be discovered
KeyUrls ==
  Range(Urls) \cup {BASE \o KAUF \o <<"a">>, BASE \o MIET \o <<"b", "/">>}

\* records as run() makes them of a detail page
ScrapedRecords ==
  {make_record(parse_detail(u, pg, EmptyDict)) : u \in KeyUrls, pg \in {Page1, Page2}}

InitKey ==
  /\ kin \in (RawRecords \X RawRecords) \cup (ScrapedRecords \X ScrapedRecords)
  /\ kout = <<>>
  /\ config = [token |-> FALSE, base |-> FALSE, table |-> FALSE]
  /\ site = <<>>
  /\ remote = <<>>
  /\ nextId = 1
  /\ run = 1
  /\ prev = [pc |-> "none", rows |-> <<>>, last |-> "none"]
  /\ csv = [written |-> FALSE, run |-> 0, rows |-> <<>>]
  /\ FreshRun

ResolveKeys ==
  /\ kin # <<>>
  /\ kout = <<>>
  /\ kout' = <<unique_key(kin[1]), unique_key(kin[2])>>
  /\ UNCHANGED <<envvars, storevars, run, pc, prev, cache, detail_links, i,
                 all_rows, csv, planvars, sent, kin>>

NextKey == ResolveKeys

SpecKey == InitKey /\ [][NextKey]_vars

\* t is s without its leading and trailing whitespace
IsTrimOf(t, s) ==
  /\ \E a, b \in 0..Len(s) :
       /\ a + Len(t) + b = Len(s)
       /\ \A j \in 1..Len(s) :
            IF j <= a \/ j > a + Len(t) THEN s[j] \in Whitespace ELSE s[j] = t[j - a]
  /\ t # <<>> => t[1] \notin Whitespace /\ t[Len(t)] \notin Whitespace

\* the text of a field, empty when the field is absent
TextOf(r, fld) == IF fld \in DOMAIN r THEN r[fld].s ELSE <<>>

Blank(str) == \A j \in 1..Len(str) : str[j] \in Whitespace

\* C7: the key is "obj:" + trimmed Objektnummer when that is not blank, also
\* when a Webseite is present; else "url:" + trimmed Webseite when that is
\* not blank; else a "hash:" key, and two hash keys are equal exactly when
\* the records have the same fields with the same values.
C7_KeyPriority ==
  kout # <<>> =>
    /\ \A j \in 1..2 :
         LET obj == TextOf(kin[j], "Objektnummer")
             web == TextOf(kin[j], "Webseite")
         IN /\ ~Blank(obj) => kout[j].tag = "obj" /\ IsTrimOf(kout[j].str, obj)
            /\ (Blank(obj) /\ ~Blank(web)) =>
                 kout[j].tag = "url" /\ IsTrimOf(kout[j].str, web)
            /\ (Blank(obj) /\ Blank(web)) => kout[j].tag = "hash"
    /\ (kout[1].tag = "hash" /\ kout[2].tag = "hash") =>
         (kout[1] = kout[2] <=> kin[1] = kin[2])

\* a padded Objektnummer together with a Webseite, and a record with neither
C7_Witness ==
  /\ kout # <<>>
  /\ TextOf(kin[1], "Objektnummer") = <<" ", "a", " ">>
  /\ TextOf(kin[1], "Webseite") = <<" ", "u">>
  /\ kout[1] = Key("obj", <<"a">>, EmptyDict)
  /\ kout[2].tag = "hash"

\* C8: two records made of detail pages that have the same object number or
\* the same URL get the same key, whatever their other fields.
C8_KeyStable ==
  (/\ kout # <<>>
   /\ kin[1] \in ScrapedRecords
   /\ kin[2] \in ScrapedRecords
   /\ \/ kin[1]["Objektnummer"] = kin[2]["Objektnummer"]
      \/ kin[1]["Webseite"] = kin[2]["Webseite"])
  => kout[1] = kout[2]

\* the same object number under two URLs, with another title, description
\* and price
C8_Witness ==
  /\ kout # <<>>
  /\ kin[1] \in ScrapedRecords
  /\ kin[2] \in ScrapedRecords
  /\ kin[1]["Objektnummer"] = kin[2]["Objektnummer"]
  /\ kin[1]["Webseite"] # kin[2]["Webseite"]
  /\ kin[1]["Titel"] # kin[2]["Titel"]
  /\ kin[1]["Beschreibung"] # kin[2]["Beschreibung"]
  /\ DOMAIN kin[1] # DOMAIN kin[2]
  /\ kout[1] = kout[2]

(***************************************************************************)
(* The batch loops on their own: runs over a site of n listings against an *)
(* empty table or a table of MaxItems rows, so that the create, update and *)
(* delete lists take every length from 0 to MaxItems.                      *)
(***************************************************************************)
ListingSite(n) ==
  [j \in 1..n |-> [url |-> BASE \o KAUF \o Rep("c", j) \o <<"/">>, page |-> Page1]]

ListingTable(n) ==
  [j \in 1..n |->
     [id |-> j,
      fields |-> [Objektnummer |-> StrV(Rep("c", j)), Titel |-> StrV(<<"T", "0">>)]]]

InitBatch ==
  /\ config = [token |-> TRUE, base |-> TRUE, table |-> TRUE]
  /\ site \in {ListingSite(n) : n \in 0..MaxItems}
  /\ remote \in {<<>>, ListingTable(MaxItems)}
  /\ nextId = Len(remote) + 1
  /\ run = 1
  /\ prev = [pc |-> "none", rows |-> <<>>, last |-> "none"]
  /\ csv = [written |-> FALSE, run |-> 0, rows |-> <<>>]
  /\ FreshRun
  /\ kin = <<>>
  /\ kout = <<>>

SpecBatch == InitBatch /\ [][Next]_vars

\* the requests with operation op sent so far, failed ones included
RequestsOf(op) == {j \in 1..Len(sent) : sent[j].op = op}

\* their items, in the order sent
RECURSIVE RequestItems(_, _)
RequestItems(op, n) ==
  IF n = 0 THEN <<>>
  ELSE RequestItems(op, n - 1) \o (IF sent[n].op = op THEN sent[n].items ELSE <<>>)

IsPrefix(a, b) == Len(a) <= Len(b) /\ a = SubSeq(b, 1, Len(a))

\* the list given to the batch function of op, as request items
OperationList(op) ==
  CASE op = "create" -> AsItems(to_create)
    [] op = "update" -> to_update
    [] op = "delete" -> IdItems(to_delete_ids)

\* the batch function of op, if called, has returned without a failure
Returned(op) ==
  /\ \A j \in RequestsOf(op) : sent[j].ok
  /\ \/ pc = "done"
     \/ pc \in {"create", "update", "delete"} /\ Rank(pc) > Rank(op)

\* C14: the requests of each batch function carry consecutive slices of its
\* list, in order, of 1 to 10 items each; when it has returned without a
\* failure it has sent exactly ceil(n/10) requests and every item of the
\* list exactly once (no request for an empty list).
C14_Batching ==
  Planned =>
    \A op \in {"create", "update", "delete"} :
      /\ IsPrefix(RequestItems(op, Len(sent)), OperationList(op))
      /\ \A j \in RequestsOf(op) : Len(sent[j].items) \in 1..10
      /\ Returned(op) =>
           /\ RequestItems(op, Len(sent)) = OperationList(op)
           /\ Cardinality(RequestsOf(op)) = (Len(OperationList(op)) + 9) \div 10

\* twenty updates went out in two requests, the deletes in one, and no
\* create request was sent for the empty create list
C14_Witness ==
  /\ pc = "done"
  /\ Len(to_update) = 20
  /\ Cardinality(RequestsOf("update")) = 2
  /\ to_delete_ids # <<>>
  /\ Cardinality(RequestsOf("delete")) = 1
  /\ to_create = <<>>
  /\ RequestsOf("create") = {}

====
